---- MODULE Spec2Model ----
(***************************************************************************)
(* Model of crewai_agent.py: a linear script that loads two environment    *)
(* variables, registers a device with MachineID.io, sleeps, validates the  *)
(* device, and only when the device is allowed builds and runs one CrewAI  *)
(* crew.  Strings that the code transforms (the org key, which is          *)
(* stripped) are sequences of one-character strings; JSON values are       *)
(* tagged records so that Python's dict.get, == and bool() can be computed *)
(* as the interpreter computes them.                                       *)
(***************************************************************************)
EXTENDS Integers, Sequences, FiniteSets, TLC

VARIABLES env, pc, org_key, device_id, regResp, valResp, reg, val,
          crew, result, sent, trace, out, exc, exitCode

vars == <<env, pc, org_key, device_id, regResp, valResp, reg, val,
          crew, result, sent, trace, out, exc, exitCode>>

----------------------------------------------------------------------------
(* Bounds *)

\* longest MACHINEID_ORG_KEY value enumerated
MaxKeyLen == 2

----------------------------------------------------------------------------
(* Strings and the environment *)

Space == " "

KeyChars == {Space, "k"}

RECURSIVE StringsUpTo(_)
StringsUpTo(n) ==
    IF n = 0 THEN {<<>>}
    ELSE LET shorter == StringsUpTo(n - 1)
         IN  shorter \cup {Append(s, c) : s \in {t \in shorter : Len(t) = n - 1}, c \in KeyChars}

OrgKeyValues == StringsUpTo(MaxKeyLen)

DeviceIdValues == {<<>>, <<"d">>}

DefaultDeviceId == <<"crewai-agent-01">>

ORG_KEY == "MACHINEID_ORG_KEY"
DEVICE_ID == "MACHINEID_DEVICE_ID"

\* every environment: each variable is unset (absent from the domain) or set
Environments ==
    UNION { [names -> OrgKeyValues \cup DeviceIdValues] : names \in SUBSET {ORG_KEY, DEVICE_ID} }

EnvironmentOK(e) ==
    /\ ORG_KEY \in DOMAIN e => e[ORG_KEY] \in OrgKeyValues
    /\ DEVICE_ID \in DOMAIN e => e[DEVICE_ID] \in DeviceIdValues

\* str.strip(): remove leading and trailing whitespace
RECURSIVE LStrip(_)
LStrip(s) == IF s # <<>> /\ Head(s) = Space THEN LStrip(Tail(s)) ELSE s

RECURSIVE RStrip(_)
RStrip(s) == IF s # <<>> /\ s[Len(s)] = Space THEN RStrip(SubSeq(s, 1, Len(s) - 1)) ELSE s

Strip(s) == RStrip(LStrip(s))

\* variant of get_org_key: tests "is None" instead of "not org_key"
get_org_key_none_only(e) ==
    IF ORG_KEY \notin DOMAIN e
    THEN [raised |-> TRUE, value |-> <<>>]
    ELSE [raised |-> FALSE, value |-> Strip(e[ORG_KEY])]

\* get_org_key(): raises RuntimeError when the variable is unset or empty,
\* otherwise returns the stripped value
get_org_key(e) ==
    IF ORG_KEY \notin DOMAIN e \/ e[ORG_KEY] = <<>>
    THEN [raised |-> TRUE, value |-> <<>>]
    ELSE [raised |-> FALSE, value |-> Strip(e[ORG_KEY])]

\* get_device_id(): os.getenv with a default
get_device_id(e) == IF DEVICE_ID \in DOMAIN e THEN e[DEVICE_ID] ELSE DefaultDeviceId

----------------------------------------------------------------------------
(* JSON values and the Python operations applied to them *)

None == [t |-> "null"]
JStr(s) == [t |-> "str", s |-> s]
JBool(b) == [t |-> "bool", b |-> b]
JNum(n) == [t |-> "num", n |-> n]
JArr == [t |-> "array"]
JObj(f) == [t |-> "object", f |-> f]

IsDict(v) == v.t = "object"

\* dict.get(key, default)
Get(data, key, default) == IF key \in DOMAIN data.f THEN data.f[key] ELSE default

\* bool(v)
Bool(v) ==
    CASE v.t = "bool" -> v.b
      [] v.t = "str" -> v.s # ""
      [] v.t = "num" -> v.n # 0
      [] v.t = "null" -> FALSE
      [] v.t = "array" -> FALSE
      [] v.t = "object" -> DOMAIN v.f # {}

----------------------------------------------------------------------------
(* HTTP responses the two endpoints can produce *)

StatusCodes == {200, 403, 500}

RegisterStatuses == {JStr("ok"), JStr("exists"), JStr("limit_reached"), None}

AllowedValues == {JBool(TRUE), JBool(FALSE), None, JStr("false"), JNum(0), JNum(1)}

NonObjects == {None, JArr, JStr("error")}

RegisterObjects ==
    {JObj(<<>>)} \cup {JObj([status |-> s]) : s \in RegisterStatuses}

ValidateObjects ==
    {JObj(<<>>), JObj([reason |-> JStr("revoked")])}
      \cup {JObj([allowed |-> a]) : a \in AllowedValues}
      \cup {JObj([allowed |-> a, reason |-> JStr("revoked")]) : a \in {JBool(TRUE), JBool(FALSE)}}

\* kind "raise": requests.post/get raised (connection error, timeout);
\* kind "text": a body that is not JSON; kind "json": a body that parses
Responses(objects) ==
    {[kind |-> "raise", code |-> 0, body |-> None]}
      \cup {[kind |-> "text", code |-> c, body |-> None] : c \in StatusCodes}
      \cup {[kind |-> "json", code |-> c, body |-> b] : c \in StatusCodes, b \in objects \cup NonObjects}

RegisterResponses == Responses(RegisterObjects)
ValidateResponses == Responses(ValidateObjects)

NoResponse == [kind |-> "none", code |-> 0, body |-> None]

----------------------------------------------------------------------------
(* register_device and validate_device as functions of the response *)

\* variant of ParseJson: the except clause substitutes an empty dictionary
ParseJsonLenient(resp) ==
    [raised |-> FALSE, data |-> IF resp.kind = "text" THEN JObj(<<>>) ELSE resp.body]

\* resp.json(): raises when the body is not JSON, otherwise the parsed value
ParseJson(resp) == [raised |-> resp.kind = "text", data |-> resp.body]

RegisterRequest(k, d) == [url |-> "register", method |-> "POST", key |-> k, deviceId |-> d]

ValidateRequest(k, d) == [url |-> "validate", method |-> "GET", key |-> k, deviceId |-> d]

\* variant of register_device: calls resp.raise_for_status() before parsing
register_device_raise_for_status(resp) ==
    IF resp.kind = "raise"
    THEN [exc |-> "RequestException", out |-> <<"registering">>, data |-> None]
    ELSE IF resp.code >= 400
    THEN [exc |-> "HTTPError", out |-> <<"registering">>, data |-> None]
    ELSE IF ParseJson(resp).raised
    THEN [exc |-> "JSONDecodeError",
          out |-> <<"registering", "register_parse_error", "status_code", "body">>,
          data |-> None]
    ELSE IF ~IsDict(ParseJson(resp).data)
    THEN [exc |-> "AttributeError", out |-> <<"registering">>, data |-> None]
    ELSE [exc |-> "none",
          out |-> <<"registering", "register_response", "registration_summary">>,
          data |-> ParseJson(resp).data]

\* the outcome of register_device: the exception it raises ("none" when it
\* returns), what it printed, and the dictionary it returns
register_device(resp) ==
    IF resp.kind = "raise"
    THEN [exc |-> "RequestException", out |-> <<"registering">>, data |-> None]
    ELSE IF ParseJson(resp).raised
    THEN [exc |-> "JSONDecodeError",
          out |-> <<"registering", "register_parse_error", "status_code", "body">>,
          data |-> None]
    ELSE IF ~IsDict(ParseJson(resp).data)
    THEN [exc |-> "AttributeError", out |-> <<"registering">>, data |-> None]
    ELSE [exc |-> "none",
          out |-> <<"registering", "register_response", "registration_summary">>,
          data |-> ParseJson(resp).data]

validate_device(resp) ==
    IF resp.kind = "raise"
    THEN [exc |-> "RequestException", out |-> <<"validating">>, data |-> None]
    ELSE IF ParseJson(resp).raised
    THEN [exc |-> "JSONDecodeError",
          out |-> <<"validating", "validate_parse_error", "status_code", "body">>,
          data |-> None]
    ELSE IF ~IsDict(ParseJson(resp).data)
    THEN [exc |-> "AttributeError", out |-> <<"validating">>, data |-> None]
    ELSE [exc |-> "none",
          out |-> <<"validating", "validate_response">>,
          data |-> ParseJson(resp).data]

\* variant of LimitReached: misspelt status literal
LimitReachedTypo(data) == Get(data, "status", None) = JStr("limit-reached")

\* reg_status == "limit_reached"
LimitReached(data) == Get(data, "status", None) = JStr("limit_reached")

\* variant of Allowed: the default of the lookup is True
AllowedDefaultTrue(data) == Bool(Get(data, "allowed", JBool(TRUE)))

\* allowed = bool(val.get("allowed", False))
Allowed(data) == Bool(Get(data, "allowed", JBool(FALSE)))

----------------------------------------------------------------------------
(* Process termination *)

\* exit status of the interpreter: sys.exit(n) gives n, an exception that
\* leaves main() uncaught gives 1, a normal return gives 0
ExitCode(e) ==
    CASE e = "none" -> 0
      [] e = "SystemExit(0)" -> 0
      [] e = "SystemExit(1)" -> 1
      [] OTHER -> 1

Exit(e) ==
    /\ pc' = "exited"
    /\ exc' = e
    /\ exitCode' = ExitCode(e)

Continue(next) ==
    /\ pc' = next
    /\ UNCHANGED <<exc, exitCode>>

----------------------------------------------------------------------------
(* The run of main() *)

Init ==
    /\ env \in {e \in Environments : EnvironmentOK(e)}
    /\ pc = "load"
    /\ org_key = <<>>
    /\ device_id = <<>>
    /\ regResp = NoResponse
    /\ valResp = NoResponse
    /\ reg = None
    /\ val = None
    /\ crew = "unset"
    /\ result = "unset"
    /\ sent = <<>>
    /\ trace = <<>>
    /\ out = <<>>
    /\ exc = "none"
    /\ exitCode = -1

\* 1) load org key and device ID
LoadEnv ==
    /\ pc = "load"
    /\ IF get_org_key(env).raised
       THEN /\ Exit("RuntimeError")
            /\ UNCHANGED <<org_key, device_id, out>>
       ELSE /\ org_key' = get_org_key(env).value
            /\ device_id' = get_device_id(env)
            /\ out' = out \o <<"org_key_loaded", "using_device_id">>
            /\ Continue("register")
    /\ UNCHANGED <<env, regResp, valResp, reg, val, crew, result, sent, trace>>

\* variant of RegisterDevice: a failed request is sent a second time
RegisterDeviceRetry ==
    /\ pc = "register"
    /\ \E resp \in RegisterResponses :
         LET r == register_device(resp) IN
         /\ regResp' = resp
         /\ sent' = Append(sent, RegisterRequest(org_key, device_id))
         /\ trace' = IF resp.kind = "raise"
                     THEN Append(trace, "register_request")
                     ELSE trace \o <<"register_request", "register_response">>
         /\ reg' = r.data
         /\ IF resp.kind = "raise" /\ sent = <<>>
            THEN /\ out' = out \o r.out
                 /\ Continue("register")
            ELSE IF r.exc # "none"
            THEN /\ out' = out \o r.out
                 /\ Exit(r.exc)
            ELSE IF LimitReached(r.data)
            THEN /\ out' = out \o r.out \o <<"limit_reached">>
                 /\ Exit("SystemExit(0)")
            ELSE /\ out' = out \o r.out
                 /\ Continue("sleep")
    /\ UNCHANGED <<env, org_key, device_id, valResp, val, crew, result>>

\* 2) register the device and branch on the status
RegisterDevice ==
    /\ pc = "register"
    /\ \E resp \in RegisterResponses :
         LET r == register_device(resp) IN
         /\ regResp' = resp
         /\ sent' = Append(sent, RegisterRequest(org_key, device_id))
         /\ trace' = IF resp.kind = "raise"
                     THEN Append(trace, "register_request")
                     ELSE trace \o <<"register_request", "register_response">>
         /\ reg' = r.data
         /\ IF r.exc # "none"
            THEN /\ out' = out \o r.out
                 /\ Exit(r.exc)
            ELSE IF LimitReached(r.data)
            THEN /\ out' = out \o r.out \o <<"limit_reached">>
                 /\ Exit("SystemExit(0)")
            ELSE /\ out' = out \o r.out
                 /\ Continue("sleep")
    /\ UNCHANGED <<env, org_key, device_id, valResp, val, crew, result>>

\* the pause before validating
Sleep ==
    /\ pc = "sleep"
    /\ out' = Append(out, "waiting")
    /\ trace' = Append(trace, "sleep")
    /\ Continue("validate")
    /\ UNCHANGED <<env, org_key, device_id, regResp, valResp, reg, val, crew, result, sent>>

\* 3) validate the device and branch on allowed
ValidateDevice ==
    /\ pc = "validate"
    /\ \E resp \in ValidateResponses :
         LET r == validate_device(resp) IN
         /\ valResp' = resp
         /\ sent' = Append(sent, ValidateRequest(org_key, device_id))
         /\ trace' = IF resp.kind = "raise"
                     THEN Append(trace, "validate_request")
                     ELSE trace \o <<"validate_request", "validate_response">>
         /\ val' = r.data
         /\ IF r.exc # "none"
            THEN /\ out' = out \o r.out
                 /\ Exit(r.exc)
            ELSE IF ~Allowed(r.data)
            THEN /\ out' = out \o r.out \o <<"validation_summary", "not_allowed">>
                 /\ Exit("SystemExit(0)")
            ELSE /\ out' = out \o r.out \o <<"validation_summary", "allowed">>
                 /\ Continue("build")
    /\ UNCHANGED <<env, org_key, device_id, regResp, reg, crew, result>>

\* 4) build the crew; the constructors of the framework may raise, and the
\* call is outside the try block
BuildCrewaiObjects ==
    /\ pc = "build"
    /\ trace' = Append(trace, "build")
    /\ \E built \in BOOLEAN :
         IF built
         THEN /\ crew' = "built"
              /\ Continue("kickoff")
         ELSE /\ crew' = crew
              /\ Exit("Exception")
    /\ UNCHANGED <<env, org_key, device_id, regResp, valResp, reg, val, result, sent, out>>

\* variant of Kickoff: a failed kickoff is attempted a second time
KickoffRetry ==
    /\ pc = "kickoff"
    /\ trace' = Append(trace, "kickoff")
    /\ \E returned \in BOOLEAN :
         IF returned
         THEN /\ result' = "output"
              /\ out' = out
              /\ Continue("print")
         ELSE /\ result' = result
              /\ out' = Append(out, "crew_error")
              /\ IF "kickoff" \in {trace[i] : i \in DOMAIN trace}
                 THEN Exit("SystemExit(1)")
                 ELSE Continue("kickoff")
    /\ UNCHANGED <<env, org_key, device_id, regResp, valResp, reg, val, crew, sent>>

\* variant of Kickoff: the except clause prints and falls through
KickoffNoExit ==
    /\ pc = "kickoff"
    /\ trace' = Append(trace, "kickoff")
    /\ \E returned \in BOOLEAN :
         IF returned
         THEN /\ result' = "output"
              /\ out' = out
              /\ Continue("print")
         ELSE /\ result' = result
              /\ out' = Append(out, "crew_error")
              /\ Continue("print")
    /\ UNCHANGED <<env, org_key, device_id, regResp, valResp, reg, val, crew, sent>>

\* variant of Kickoff: the except clause exits with status 0
KickoffExitZero ==
    /\ pc = "kickoff"
    /\ trace' = Append(trace, "kickoff")
    /\ \E returned \in BOOLEAN :
         IF returned
         THEN /\ result' = "output"
              /\ out' = out
              /\ Continue("print")
         ELSE /\ result' = result
              /\ out' = Append(out, "crew_error")
              /\ Exit("SystemExit(0)")
    /\ UNCHANGED <<env, org_key, device_id, regResp, valResp, reg, val, crew, sent>>

\* crew.kickoff() inside try/except Exception
Kickoff ==
    /\ pc = "kickoff"
    /\ trace' = Append(trace, "kickoff")
    /\ \E returned \in BOOLEAN :
         IF returned
         THEN /\ result' = "output"
              /\ out' = out
              /\ Continue("print")
         ELSE /\ result' = result
              /\ out' = Append(out, "crew_error")
              /\ Exit("SystemExit(1)")
    /\ UNCHANGED <<env, org_key, device_id, regResp, valResp, reg, val, crew, sent>>

\* print the result and return from main()
PrintResult ==
    /\ pc = "print"
    /\ out' = out \o <<"crew_result", "completed">>
    /\ Exit("none")
    /\ UNCHANGED <<env, org_key, device_id, regResp, valResp, reg, val, crew, result, sent, trace>>

Next ==
    \/ LoadEnv
    \/ RegisterDevice
    \/ Sleep
    \/ ValidateDevice
    \/ BuildCrewaiObjects
    \/ Kickoff
    \/ PrintResult

Spec == Init /\ [][Next]_vars

----------------------------------------------------------------------------
(* Vocabulary of the properties *)

Exited == pc = "exited"

Occurred(event) == \E i \in DOMAIN trace : trace[i] = event

Count(event) == Cardinality({i \in DOMAIN trace : trace[i] = event})

Printed(line) == \E i \in DOMAIN out : out[i] = line

RequestsTo(url) == {i \in DOMAIN sent : sent[i].url = url}

OrgKeyMissing == ORG_KEY \notin DOMAIN env \/ env[ORG_KEY] = <<>>

\* the response carries a body that parses as JSON
IsJson(resp) == resp.kind = "json"

\* the response carries a body that parses to a JSON object
IsJsonObject(resp) == resp.kind = "json" /\ resp.body.t = "object"

\* the status member of a JSON body, None when there is none
StatusOf(resp) ==
    IF IsJsonObject(resp) /\ "status" \in DOMAIN resp.body.f
    THEN resp.body.f["status"]
    ELSE None

RegLimitReached == IsJsonObject(regResp) /\ StatusOf(regResp) = JStr("limit_reached")

AllowedAbsent == IsJsonObject(valResp) /\ "allowed" \notin DOMAIN valResp.body.f

AllowedIs(b) ==
    /\ IsJsonObject(valResp)
    /\ "allowed" \in DOMAIN valResp.body.f
    /\ valResp.body.f["allowed"] = JBool(b)

\* the validate response is an object whose allowed member is truthy
AllowedTruthy ==
    /\ IsJsonObject(valResp)
    /\ "allowed" \in DOMAIN valResp.body.f
    /\ Bool(valResp.body.f["allowed"])

KickoffRaised == Occurred("kickoff") /\ result = "unset"

KickoffReturned == Occurred("kickoff") /\ result = "output"

----------------------------------------------------------------------------
(* Properties *)

\* C1: whenever the register response is a JSON object whose status is
\* "limit_reached", the run has halted with exit code 0, no validate request
\* was sent, build_crewai_objects was not called and crew.kickoff was not
\* invoked.
C1_LimitReachedHalts ==
    RegLimitReached =>
        /\ Exited
        /\ exitCode = 0
        /\ RequestsTo("validate") = {}
        /\ ~Occurred("sleep")
        /\ ~Occurred("build")
        /\ ~Occurred("kickoff")
        /\ crew = "unset"

C1_Witness ==
    /\ RegLimitReached
    /\ Exited
    /\ Printed("limit_reached")
    /\ Len(sent) = 1

\* C2: whenever the validate response is a JSON object whose allowed member
\* is false or absent, the run has halted with exit code 0 and neither
\* build_crewai_objects nor crew.kickoff was invoked.
C2_NotAllowedHalts ==
    (AllowedAbsent \/ AllowedIs(FALSE)) =>
        /\ Exited
        /\ exitCode = 0
        /\ ~Occurred("build")
        /\ ~Occurred("kickoff")
        /\ crew = "unset"

C2_Witness ==
    /\ AllowedAbsent
    /\ Exited
    /\ Printed("not_allowed")
    /\ Occurred("validate_response")

\* the runs C3 speaks of: org key present, register returned JSON with a
\* status other than "limit_reached", validate returned JSON with
\* allowed == true
C3_Case ==
    /\ ~OrgKeyMissing
    /\ IsJson(regResp)
    /\ StatusOf(regResp) # JStr("limit_reached")
    /\ AllowedIs(TRUE)

C4_KickoffErrorCaught ==
    KickoffRaised =>
        /\ Exited
        /\ Printed("crew_error")
        /\ exitCode = 1
        /\ exc = "SystemExit(1)"
        /\ ~Printed("crew_result")
        /\ ~Printed("completed")

C4_Witness ==
    /\ KickoffRaised
    /\ Exited
    /\ crew = "built"

\* C5: a register or validate body that is not JSON makes the run print the
\* status code and the body and terminate with the parse error; after a
\* non-JSON register response there is no sleep, no validate request and no
\* crew; after a non-JSON validate response there is no crew.
C5_NonJsonTerminates ==
    /\ regResp.kind = "text" =>
        /\ Exited
        /\ exc = "JSONDecodeError"
        /\ exitCode = 1
        /\ Printed("register_parse_error") /\ Printed("status_code") /\ Printed("body")
        /\ ~Occurred("sleep")
        /\ RequestsTo("validate") = {}
        /\ ~Occurred("build")
        /\ ~Occurred("kickoff")
    /\ valResp.kind = "text" =>
        /\ Exited
        /\ exc = "JSONDecodeError"
        /\ exitCode = 1
        /\ Printed("validate_parse_error") /\ Printed("status_code") /\ Printed("body")
        /\ ~Occurred("build")
        /\ ~Occurred("kickoff")

C5_Witness ==
    /\ valResp.kind = "text"
    /\ valResp.code = 500
    /\ Exited
    /\ Occurred("sleep")

\* the three endings with exit code 0
EndedByLimit == RegLimitReached

EndedByDenial == IsJsonObject(valResp) /\ ~AllowedTruthy

EndedBySuccess == KickoffReturned /\ Printed("crew_result")

\* the endings that are errors
EndedByError ==
    \/ OrgKeyMissing
    \/ regResp.kind \in {"raise", "text"}
    \/ valResp.kind \in {"raise", "text"}
    \/ IsJson(regResp) /\ ~IsJsonObject(regResp)
    \/ IsJson(valResp) /\ ~IsJsonObject(valResp)
    \/ Occurred("build") /\ crew = "unset"
    \/ KickoffRaised

\* C6: a run that has ended has exit code 0 exactly when it ended by a
\* limit_reached register status, by a not-allowed validate decision or by a
\* successful crew run with its result printed, and exit code 1 otherwise;
\* no run that ended by an error has exit code 0.
C6_ExitCodeByCause ==
    Exited =>
        /\ exitCode \in {0, 1}
        /\ exitCode = 0 <=> (EndedByLimit \/ EndedByDenial \/ EndedBySuccess)
        /\ EndedByError => exitCode = 1
        /\ EndedByError <=> ~(EndedByLimit \/ EndedByDenial \/ EndedBySuccess)

C6_Witness ==
    /\ Exited
    /\ Occurred("build")
    /\ crew = "unset"
    /\ exitCode = 1

\* C7: when MACHINEID_ORG_KEY is unset or empty the run ends with the error
\* of get_org_key before any request is sent and without the crew; when
\* MACHINEID_DEVICE_ID is unset the device ID is "crewai-agent-01" and the
\* run does not end in get_org_key's or any other startup error.
C7_OrgKeyRequired ==
    /\ (OrgKeyMissing /\ pc # "load") =>
        /\ Exited
        /\ exc = "RuntimeError"
        /\ exitCode = 1
        /\ sent = <<>>
        /\ trace = <<>>
        /\ crew = "unset"
    /\ (~OrgKeyMissing /\ pc # "load") =>
        /\ exc # "RuntimeError"
        /\ DEVICE_ID \notin DOMAIN env => device_id = DefaultDeviceId
        /\ \A i \in DOMAIN sent :
             DEVICE_ID \notin DOMAIN env => sent[i].deviceId = DefaultDeviceId

C7_Witness ==
    /\ ORG_KEY \in DOMAIN env
    /\ env[ORG_KEY] = <<>>
    /\ DEVICE_ID \notin DOMAIN env
    /\ Exited
    /\ exc = "RuntimeError"

\* position of an event in the order of main()
Rank(event) ==
    CASE event = "register_request" -> 1
      [] event = "register_response" -> 2
      [] event = "sleep" -> 3
      [] event = "validate_request" -> 4
      [] event = "validate_response" -> 5
      [] event = "build" -> 6
      [] event = "kickoff" -> 7

Before(a, b) ==
    \A j \in DOMAIN trace : trace[j] = b => \E i \in 1..(j - 1) : trace[i] = a

\* C8: every event happens at most once and only in the order register
\* request -> sleep -> validate request -> build -> kickoff; no endpoint is
\* called twice; validate is sent only after a register response; the sleep
\* lies between the register response and the validate request; kickoff
\* comes only after the validate response.
C8_OrderAtMostOnce ==
    /\ \A i, j \in DOMAIN trace : i < j => Rank(trace[i]) < Rank(trace[j])
    /\ Cardinality(RequestsTo("register")) <= 1
    /\ Cardinality(RequestsTo("validate")) <= 1
    /\ Len(sent) = Count("register_request") + Count("validate_request")
    /\ \A i, j \in DOMAIN sent : i < j => (sent[i].url = "register" /\ sent[j].url = "validate")
    /\ Before("register_response", "validate_request")
    /\ Before("register_response", "sleep")
    /\ Before("sleep", "validate_request")
    /\ Before("validate_response", "build")
    /\ Before("build", "kickoff")
    /\ Before("validate_response", "kickoff")

C8_Witness ==
    /\ Exited
    /\ trace = <<"register_request", "register_response", "sleep", "validate_request",
                 "validate_response", "build", "kickoff">>
    /\ Len(sent) = 2

\* the run has gone past the register step
PastRegister == pc \notin {"load", "register"}

\* the run has gone past the validate step
PastValidate == pc \notin {"load", "register", "sleep", "validate"}

\* after register, the run is at the sleep or has slept and is at, or has
\* sent, the validate request
ProceededToValidate ==
    \/ pc = "sleep"
    \/ Occurred("sleep") /\ (pc = "validate" \/ RequestsTo("validate") # {})

\* the crew is started exactly when the validate response allows it
CrewDecidedByAllowed ==
    PastValidate => ((pc = "build" \/ Occurred("build")) <=> AllowedTruthy)

\* C9 as stated: for every JSON register response whose status is anything
\* other than "limit_reached" (a missing status and HTTP 4xx/5xx included)
\* main() proceeds to the sleep and sends the validate request, and the crew
\* is then started according to the allowed field alone.
C9_Original ==
    (PastRegister /\ IsJson(regResp) /\ StatusOf(regResp) # JStr("limit_reached")) =>
        /\ ProceededToValidate
        /\ CrewDecidedByAllowed

\* C9 amended: the same for every register response whose body is a JSON
\* object.
C9_StatusOnlyGate ==
    (PastRegister /\ IsJsonObject(regResp) /\ StatusOf(regResp) # JStr("limit_reached")) =>
        /\ ProceededToValidate
        /\ CrewDecidedByAllowed

C9_Witness ==
    /\ IsJsonObject(regResp)
    /\ regResp.code = 500
    /\ "status" \notin DOMAIN regResp.body.f
    /\ Occurred("sleep")
    /\ Occurred("build")
    /\ AllowedTruthy

\* C10: every request sent carries a non-empty x-org-key header, and the
\* requests of one run carry the same org key and the same deviceId.
C10_Credentials ==
    /\ \A i \in DOMAIN sent : sent[i].key # <<>>
    /\ \A i, j \in DOMAIN sent :
         sent[i].key = sent[j].key /\ sent[i].deviceId = sent[j].deviceId

----------------------------------------------------------------------------
====
